---- MODULE Spec2Model ----
(***************************************************************************)
(* Verification model of kadiryunusdemir.dev: the code the posts publish   *)
(* and the content corpus (Markdown posts with front matter):              *)
(*   - utils.executeActionWithConfirmation   (post-6.md)                   *)
(*   - the table-name guard of the SQL post  (post-3.md)                   *)
(*   - utils.createTableFromJson             (unnamed/part_000)            *)
(*   - the front matter of the seven posts, read in one build-time pass    *)
(* Each component has its own variables, its own next-state relation and   *)
(* its own specification; the other components' variables stay at their    *)
(* initial values.                                                         *)
(***************************************************************************)
EXTENDS Integers, Sequences, FiniteSets, TLC

VARIABLES
    inv,        \* executeActionWithConfirmation: one record per invocation
    uiBlocked,  \* $.blockUI / $.unblockUI overlay of the page
    page,       \* "here", or where the page went: "navigated" / "reloaded"
    sqlLog,     \* the SQL post's controller: one record per call made so far
    div,        \* createTableFromJson: the children of divRef, in order
    toasts,     \* createTableFromJson: the toastr.error toasts shown so far
    tableCalls, \* createTableFromJson: the calls so far, the latest last
    docIdx,     \* corpus: the document being read, in the order of Documents
    lineNo,     \* corpus: the line of it to read next
    reader,     \* corpus: the front matter reader's state in that document
    parsed,     \* corpus: the fields of the documents read so far
    parentValue,\* cascadedDropdownList: the value of the parent select
    child,      \* cascadedDropdownList: the options of the child select
    pending,    \* cascadedDropdownList: the ids of the requests in flight
    ddBlocked,  \* cascadedDropdownList: the $.blockUI overlay of its page
    ddHistory,  \* cascadedDropdownList: what happened so far
    bindingResult, \* model binder: bindingContext.Result
    modelState, \* model binder: bindingContext.ModelState
    lastBind,   \* model binder: the last call of BindModelAsync
    bindCount,  \* model binder: the number of calls so far
    lastBuild,  \* ActionBuilder: the last call and what it returned
    buildCount  \* ActionBuilder: the number of calls so far

confirmVars == <<inv, uiBlocked, page>>
sqlVars     == <<sqlLog>>
tableVars   == <<div, toasts, tableCalls>>
corpusVars  == <<docIdx, lineNo, reader, parsed>>
dropdownVars == <<parentValue, child, pending, ddBlocked, ddHistory>>
binderVars  == <<bindingResult, modelState, lastBind, bindCount>>
urlVars     == <<lastBuild, buildCount>>

vars == <<confirmVars, sqlVars, tableVars, corpusVars, dropdownVars, binderVars, urlVars>>

\* What each component leaves alone.
exceptConfirm == <<sqlVars, tableVars, corpusVars, dropdownVars, binderVars, urlVars>>
exceptSql     == <<confirmVars, tableVars, corpusVars, dropdownVars, binderVars, urlVars>>
exceptTable   == <<confirmVars, sqlVars, corpusVars, dropdownVars, binderVars, urlVars>>
exceptCorpus  == <<confirmVars, sqlVars, tableVars, dropdownVars, binderVars, urlVars>>
exceptDropdown == <<confirmVars, sqlVars, tableVars, corpusVars, binderVars, urlVars>>
exceptBinder  == <<confirmVars, sqlVars, tableVars, corpusVars, dropdownVars, urlVars>>
exceptUrl     == <<confirmVars, sqlVars, tableVars, corpusVars, dropdownVars, binderVars>>

(***************************************************************************)
(* JavaScript values, as far as the handlers look at them.                 *)
(***************************************************************************)
JsUndefined == [ty |-> "undefined", n |-> 0, s |-> ""]
JsNum(k)    == [ty |-> "number", n |-> k, s |-> ""]
JsStr(t)    == [ty |-> "string", n |-> 0, s |-> t]

\* ToNumber of a string: the numeric literals used here, "" is 0, the rest NaN.
StringToNumber(t) ==
    CASE t = ""  -> [nan |-> FALSE, n |-> 0]
      [] t = "0" -> [nan |-> FALSE, n |-> 0]
      [] t = "1" -> [nan |-> FALSE, n |-> 1]
      [] OTHER   -> [nan |-> TRUE, n |-> 0]

\* x == k for a number k (abstract equality: a string operand is converted
\* with ToNumber, undefined and null equal only each other).
LooseEqNumber(x, k) ==
    CASE x.ty = "number" -> x.n = k
      [] x.ty = "string" -> LET c == StringToNumber(x.s) IN ~c.nan /\ c.n = k
      [] OTHER           -> FALSE

(***************************************************************************)
(* executeActionWithConfirmation (post-6.md, lines 38-84)                  *)
(***************************************************************************)
MaxInvocations == 2
Invocations == 1..MaxInvocations

ReloadUrls  == {"null", "/list"}
Callbacks   == {"default", "custom"}
Messages    == {"Saved.", "Not allowed."}
StatusCodes == {JsNum(0), JsNum(1), JsStr("0"), JsUndefined}
ErrorOccurred == "An error occurred."
NoArg == "<not called>"

\* The options object, destructured with its defaults (lines 38-55).
Options == [reloadUrl : ReloadUrls, successCallback : Callbacks, errorCallback : Callbacks]

Responses == [statusCode : StatusCodes, resultMessage : Messages]
NoResponse == [statusCode |-> JsUndefined, resultMessage |-> NoArg]

IdleInvocation ==
    [pc |-> "idle", opts |-> [reloadUrl |-> "null", successCallback |-> "default",
                              errorCallback |-> "default"],
     prevented |-> FALSE, confirmResult |-> "none", requestSent |-> FALSE,
     outcome |-> "none", response |-> NoResponse,
     succCalls |-> 0, errCalls |-> 0, succArg |-> NoArg, errArg |-> NoArg,
     toast |-> "none"]

InitConfirm ==
    /\ inv = [i \in Invocations |-> IdleInvocation]
    /\ uiBlocked = FALSE
    /\ page = "here"

\* successCallback(message): the default one toasts and leaves the page
\* (lines 43-50); a custom one is only recorded.
SuccessCallback(r, message) ==
    [r EXCEPT !.succCalls = @ + 1, !.succArg = message,
              !.toast = IF r.opts.successCallback = "default" THEN "success" ELSE @]

PageAfterSuccess(r) ==
    IF r.opts.successCallback = "default"
    THEN (IF r.opts.reloadUrl # "null" THEN "navigated" ELSE "reloaded")
    ELSE page

\* errorCallback(message): the default one toasts and unblocks (lines 51-54).
ErrorCallback(r, message) ==
    [r EXCEPT !.errCalls = @ + 1, !.errArg = message,
              !.toast = IF r.opts.errorCallback = "default" THEN "error" ELSE @]

BlockedAfterErrorMutant(r) == uiBlocked
BlockedAfterError(r) ==
    IF r.opts.errorCallback = "default" THEN FALSE ELSE uiBlocked

\* if (confirmResult) (line 60)
ProceedMutant(confirmResult) == TRUE
Proceed(confirmResult) == confirmResult

\* The click handler, lines 56-83: preventDefault, confirm, then either
\* blockUI and $.ajax or unblockUI.  confirm() blocks the page's only thread,
\* so the handler is one step.
Invoke(i) ==
    /\ page = "here"
    /\ inv[i].pc = "idle"
    /\ \E o \in Options, c \in BOOLEAN :
         LET r0 == [inv[i] EXCEPT !.opts = o, !.prevented = TRUE,
                                  !.confirmResult = IF c THEN "yes" ELSE "no"]
         IN IF Proceed(c)
            THEN /\ inv' = [inv EXCEPT ![i] = [r0 EXCEPT !.pc = "inflight",
                                                         !.requestSent = TRUE]]
                 /\ uiBlocked' = TRUE
            ELSE /\ inv' = [inv EXCEPT ![i] = [r0 EXCEPT !.pc = "declined"]]
                 /\ uiBlocked' = FALSE
    /\ UNCHANGED <<page, exceptConfirm>>

\* success: function (response) (lines 69-75)
OnSuccessMutant(r, response) == SuccessCallback(r, response.resultMessage)
OnSuccess(r, response) ==
    IF LooseEqNumber(response.statusCode, 0)
    THEN SuccessCallback(r, response.resultMessage)
    ELSE ErrorCallback(r, response.resultMessage)

\* The request of invocation i completes with a response.
AjaxSuccess(i) ==
    /\ page = "here"
    /\ inv[i].pc = "inflight"
    /\ \E response \in Responses :
         LET r0 == [inv[i] EXCEPT !.pc = "done", !.outcome = "success",
                                  !.response = response]
             r1 == OnSuccess(r0, response)
         IN /\ inv' = [inv EXCEPT ![i] = r1]
            /\ page' = IF r1.succCalls > r0.succCalls THEN PageAfterSuccess(r1) ELSE page
            /\ uiBlocked' = IF r1.errCalls > r0.errCalls THEN BlockedAfterError(r1)
                            ELSE uiBlocked
    /\ UNCHANGED exceptConfirm

\* error: function (jqXHR, textStatus, errorThrown) (lines 76-79)
OnError(r) == ErrorCallback(r, ErrorOccurred)

\* The request of invocation i fails.
AjaxError(i) ==
    /\ page = "here"
    /\ inv[i].pc = "inflight"
    /\ LET r0 == [inv[i] EXCEPT !.pc = "done", !.outcome = "error"]
           r1 == OnError(r0)
       IN /\ inv' = [inv EXCEPT ![i] = r1]
          /\ uiBlocked' = BlockedAfterError(r1)
    /\ UNCHANGED <<page, exceptConfirm>>

NextConfirm ==
    \E i \in Invocations : Invoke(i) \/ AjaxSuccess(i) \/ AjaxError(i)

(***************************************************************************)
(* The table-name guard of the SQL post (post-3.md, lines 49-160)          *)
(*                                                                         *)
(* A C# string is null or a sequence of pieces; "." and the other          *)
(* separators are pieces of their own, so that Split(".") and equality     *)
(* work on the text.                                                       *)
(***************************************************************************)
MaxSqlCalls == 2

NullString == [isNull |-> TRUE, chars |-> <<>>]
Str(cs)    == [isNull |-> FALSE, chars |-> cs]

\* string.IsNullOrEmpty
IsNullOrEmpty(t) == t.isNull \/ Len(t.chars) = 0

\* "literal" + t: a null operand concatenates as the empty string.
Concat(literal, t) == Str(<<literal>> \o t.chars)

\* t.Split(sep): the pieces between the separators.
RECURSIVE SplitFrom(_, _, _)
SplitFrom(cs, sep, cur) ==
    IF cs = <<>> THEN <<cur>>
    ELSE IF Head(cs) = sep THEN <<cur>> \o SplitFrom(Tail(cs), sep, <<>>)
    ELSE SplitFrom(Tail(cs), sep, Append(cur, Head(cs)))
Split(t, sep) == SplitFrom(t.chars, sep, <<>>)

\* dbContext.Model.GetEntityTypes().Select(t => t.GetSchemaQualifiedTableName())
\* (lines 65-67): "schema.name", or the bare name of a table without schema.
TableNames ==
    { Str(<<"dbo", ".", "Users">>), Str(<<"sales", ".", "Orders">>), Str(<<"Logs">>) }

\* The arguments the controller's callers may pass.
SchemaAndTableNames ==
    TableNames \cup
    { NullString, Str(<<>>), Str(<<"dbo", ".", "users">>), Str(<<"Users">>),
      Str(<<"dbo", ".", "Users", ";", "DROP TABLE Users">>) }

ObjectIds == {1}

\* IsSchemaAndTableNameValid (lines 56-71)
IsSchemaAndTableNameValidMutant(schemaAndTableName) ==
    ~IsNullOrEmpty(schemaAndTableName)
IsSchemaAndTableNameValid(schemaAndTableName) ==
    IF IsNullOrEmpty(schemaAndTableName) THEN FALSE
    ELSE schemaAndTableName \in TableNames

InvalidTableName(schemaAndTableName) ==
    [kind |-> "message", text |-> Concat("Invalid table name: ", schemaAndTableName)]
JsonResult == [kind |-> "json", text |-> Str(<<"{...}">>)]
Thrown(ex) == [kind |-> "exception", text |-> Str(<<ex>>)]

\* A statement handed to the database: the SQL text and its parameters.
Statement(text, params) == [text |-> text, params |-> params]

SqlCall(fn, name, executed, ret) ==
    [fn |-> fn, name |-> name, executed |-> executed, ret |-> ret]

InitSql == sqlLog = <<>>

\* RetrieveJsonFromTable (lines 81-104): the name is spliced into the text.
RetrieveJsonFromTable(schemaAndTableName, objectId, hasRow) ==
    IF ~IsSchemaAndTableNameValid(schemaAndTableName)
    THEN SqlCall("RetrieveJsonFromTable", schemaAndTableName, <<>>,
                 InvalidTableName(schemaAndTableName))
    ELSE LET query == <<"SELECT @ReturnValue = (SELECT * FROM ">>
                        \o schemaAndTableName.chars
                        \o <<" WHERE ObjectId = @ObjectId AND Deleted = 0 FOR JSON AUTO, INCLUDE_NULL_VALUES, WITHOUT_ARRAY_WRAPPER);">>
         IN SqlCall("RetrieveJsonFromTable", schemaAndTableName,
                    <<Statement(query, <<"ReturnValue", objectId>>)>>,
                    IF hasRow THEN JsonResult ELSE Thrown("InvalidCastException"))

\* The body shared by GetJsonListData (lines 119-131) and GetJsonData
\* (lines 147-160): EXEC of the stored procedure with interpolated parameters.
ExecSpGetDataAsJson(fn, schemaAndTableName, extra, hasRow) ==
    IF ~IsSchemaAndTableNameValid(schemaAndTableName)
    THEN SqlCall(fn, schemaAndTableName, <<>>, InvalidTableName(schemaAndTableName))
    ELSE LET parts == Split(schemaAndTableName, ".")
         IN IF Len(parts) < 2
            THEN SqlCall(fn, schemaAndTableName, <<>>, Thrown("IndexOutOfRangeException"))
            ELSE SqlCall(fn, schemaAndTableName,
                         <<Statement(<<"EXEC [dbo].[spGetDataAsJson]">>,
                                     <<schemaAndTableName.chars, parts[2]>> \o extra)>>,
                         IF hasRow THEN JsonResult ELSE Thrown("NullReferenceException"))

GetJsonListData(schemaAndTableName, hasRow) ==
    ExecSpGetDataAsJson("GetJsonListData", schemaAndTableName, <<>>, hasRow)

GetJsonData(schemaAndTableName, objectId, hasRow) ==
    ExecSpGetDataAsJson("GetJsonData", schemaAndTableName, <<objectId>>, hasRow)

CallRetrieveJsonFromTable ==
    /\ Len(sqlLog) < MaxSqlCalls
    /\ \E t \in SchemaAndTableNames, id \in ObjectIds, hasRow \in BOOLEAN :
         sqlLog' = Append(sqlLog, RetrieveJsonFromTable(t, id, hasRow))
    /\ UNCHANGED exceptSql

CallGetJsonListData ==
    /\ Len(sqlLog) < MaxSqlCalls
    /\ \E t \in SchemaAndTableNames, hasRow \in BOOLEAN :
         sqlLog' = Append(sqlLog, GetJsonListData(t, hasRow))
    /\ UNCHANGED exceptSql

CallGetJsonData ==
    /\ Len(sqlLog) < MaxSqlCalls
    /\ \E t \in SchemaAndTableNames, id \in ObjectIds, hasRow \in BOOLEAN :
         sqlLog' = Append(sqlLog, GetJsonData(t, id, hasRow))
    /\ UNCHANGED exceptSql

NextSql == CallRetrieveJsonFromTable \/ CallGetJsonListData \/ CallGetJsonData

(***************************************************************************)
(* createTableFromJson (unnamed/part_000, lines 108-237)                   *)
(*                                                                         *)
(* A parsed JSON value is a record: ty, the number n, the characters cs of *)
(* a string, and the properties props of an object or array as a sequence  *)
(* of <<key, value>> in enumeration order.                                 *)
(***************************************************************************)
MaxTableCalls == 2

JNull       == [ty |-> "null", n |-> 0, cs |-> <<>>, props |-> <<>>]
JNumber(k)  == [ty |-> "number", n |-> k, cs |-> <<>>, props |-> <<>>]
JText(cs)   == [ty |-> "string", n |-> 0, cs |-> cs, props |-> <<>>]
JObject(ps) == [ty |-> "object", n |-> 0, cs |-> <<>>, props |-> ps]
JArray(ps)  == [ty |-> "array", n |-> 0, cs |-> <<>>, props |-> ps]

\* typeof v === "object" (true of objects, arrays and null)
TypeofObject(v) == v.ty \in {"object", "array", "null"}

IndexKeys == <<"0", "1", "2", "3">>

\* for (const key in obj): the own enumerable keys with their values; a
\* primitive string enumerates its character indexes, other primitives and
\* null enumerate nothing.
ForIn(obj) ==
    CASE obj.ty \in {"object", "array"} -> obj.props
      [] obj.ty = "string" ->
            [i \in 1..Len(obj.cs) |-> <<IndexKeys[i], JText(<<obj.cs[i]>>)>>]
      [] OTHER -> <<>>

Digits == <<"0", "1", "2", "3", "4", "5", "6", "7", "8", "9">>

\* "<td>" + value + "</td>": the text a primitive is concatenated as.
ToDisplay(v) ==
    CASE v.ty = "null"   -> <<"null">>
      [] v.ty = "number" -> <<Digits[v.n + 1]>>
      [] OTHER           -> v.cs

\* The documents the callers hold.
FlatDoc   == JObject(<< <<"id", JNumber(1)>>, <<"name", JText(<<"A", "l">>)>> >>)
NestedDoc == JObject(<< <<"id", JNumber(2)>>,
                        <<"owner", JObject(<< <<"name", JText(<<"B">>)>>,
                                              <<"boss", JNull>> >>)>> >>)
DeepDoc   == JObject(<< <<"a", JObject(<< <<"b", JObject(<< <<"c", JNumber(3)>> >>)>> >>)>>,
                        <<"list", JArray(<< <<"0", JNumber(4)>>,
                                            <<"1", JObject(<<>>)>> >>)>> >>)
EmptyDoc  == JObject(<<>>)

JsonObjects == {FlatDoc, NestedDoc, DeepDoc, EmptyDoc}
\* JSON texts also serialize primitives.
JsonValues  == JsonObjects \cup {JNumber(5), JText(<<"h", "i">>), JNull}

\* A JavaScript string argument is a sequence of pieces: white space, the
\* JSON text of a value, or text that is no JSON.
WhiteSpace    == [kind |-> "ws", value |-> JNull]
NotJson       == [kind |-> "garbage", value |-> JNull]
JsonTextOf(v) == [kind |-> "json", value |-> v]

RECURSIVE TrimStart(_)
TrimStart(t) ==
    IF t # <<>> /\ Head(t).kind = "ws" THEN TrimStart(Tail(t)) ELSE t

RECURSIVE TrimEnd(_)
TrimEnd(t) ==
    IF t # <<>> /\ t[Len(t)].kind = "ws" THEN TrimEnd(SubSeq(t, 1, Len(t) - 1)) ELSE t

\* String.prototype.trim
Trim(t) == TrimEnd(TrimStart(t))

\* JSON.parse(text): the value of a text that is one JSON text, white space
\* around it allowed; anything else throws SyntaxError.
JsonParses(t) == Len(Trim(t)) = 1 /\ Trim(t)[1].kind = "json"
JsonParse(t)  == Trim(t)[1].value

\* The jsonData argument.
ArgUndefined  == [ty |-> "undefined", text |-> <<>>, obj |-> JNull]
ArgNull       == [ty |-> "null", text |-> <<>>, obj |-> JNull]
ArgString(t)  == [ty |-> "string", text |-> t, obj |-> JNull]
ArgObject(v)  == [ty |-> "object", text |-> <<>>, obj |-> v]

JsonDataArgs ==
    {ArgUndefined, ArgNull,
     ArgString(<<>>), ArgString(<<WhiteSpace>>), ArgString(<<WhiteSpace, WhiteSpace>>),
     ArgString(<<NotJson>>), ArgString(<<WhiteSpace, NotJson>>),
     ArgString(<<JsonTextOf(FlatDoc), NotJson>>)}
    \cup {ArgString(<<JsonTextOf(v)>>) : v \in JsonValues}
    \cup {ArgString(<<WhiteSpace, JsonTextOf(v), WhiteSpace>>) : v \in {NestedDoc}}
    \cup {ArgObject(v) : v \in JsonObjects}

\* !jsonData (lines 210 and 218)
FalsyMutant(arg) == arg.ty \in {"undefined", "null"}
Falsy(arg) == arg.ty \in {"undefined", "null"} \/ (arg.ty = "string" /\ arg.text = <<>>)

\* createNestedTables (lines 133-156): one row per key; an object value
\* gets a hidden nested table and a clickable header cell.
RECURSIVE CreateNestedTables(_)
CreateNestedTables(obj) ==
    LET ps == ForIn(obj)
        Row(p) ==
            IF p[2].ty # "null" /\ TypeofObject(p[2])
            THEN [th |-> p[1], clickable |-> TRUE, td |-> <<>>,
                  tables |-> <<[hidden |-> TRUE, rows |-> CreateNestedTables(p[2])]>>]
            ELSE [th |-> p[1], clickable |-> FALSE, td |-> ToDisplay(p[2]),
                  tables |-> <<>>]
    IN [i \in 1..Len(ps) |-> Row(ps[i])]

\* table.find("table").length: the tables nested anywhere below the rows.
RECURSIVE CountTables(_)
RECURSIVE SumTables(_, _)
SumTables(rows, i) ==
    IF i > Len(rows) THEN 0
    ELSE (IF rows[i].tables = <<>> THEN 0 ELSE 1 + CountTables(rows[i].tables[1].rows))
         + SumTables(rows, i + 1)
CountTables(rows) == SumTables(rows, 1)

\* createTable (lines 163-183): the wrapping div, the "Open All" button if
\* there is a nested table, then the table.
CreateTable(jsonObject) ==
    LET rows == CreateNestedTables(jsonObject)
    IN [tag |-> "div", button |-> CountTables(rows) > 0,
        table |-> [hidden |-> FALSE, rows |-> rows]]

\* divRef.html(content) (line 232)
Html(children, content) == <<content>>

\* The body of createTableFromJson (lines 209-236) on the children of
\* divRef: the children and the toasts after the call, and how it ended.
CreateTableFromJson(jsonData, children) ==
    IF Falsy(jsonData) THEN [div |-> children, toast |-> FALSE, outcome |-> "returned"]
    ELSE LET trimmed == IF jsonData.ty = "string"
                        THEN [jsonData EXCEPT !.text = Trim(jsonData.text)]
                        ELSE jsonData
         IN IF Falsy(trimmed)
            THEN [div |-> children, toast |-> FALSE, outcome |-> "returned"]
            ELSE IF trimmed.ty = "object"
            THEN [div |-> Html(children, CreateTable(trimmed.obj)), toast |-> FALSE,
                  outcome |-> "rendered"]
            ELSE IF JsonParses(trimmed.text)
            THEN [div |-> Html(children, CreateTable(JsonParse(trimmed.text))),
                  toast |-> FALSE, outcome |-> "rendered"]
            ELSE [div |-> children, toast |-> TRUE, outcome |-> "caught"]

\* The div of the page is empty (lines 83-84) and nothing was called yet.
InitTable ==
    /\ div = <<>>
    /\ toasts = 0
    /\ tableCalls = <<>>

CallCreateTableFromJson ==
    /\ Len(tableCalls) < MaxTableCalls
    /\ \E jsonData \in JsonDataArgs :
         LET res == CreateTableFromJson(jsonData, div)
         IN /\ div' = res.div
            /\ toasts' = toasts + (IF res.toast THEN 1 ELSE 0)
            /\ tableCalls' = Append(tableCalls, [jsonData |-> jsonData, before |-> div,
                                             outcome |-> res.outcome])
    /\ UNCHANGED exceptTable

\* A nested table is named by the path of row numbers that leads to the
\* row holding it: <<2, 1>> is the table in row 1 of the table in row 2.
RECURSIVE TablePaths(_)
TablePaths(rows) ==
    UNION {IF rows[i].tables = <<>> THEN {}
           ELSE {<<i>>} \cup {<<i>> \o q : q \in TablePaths(rows[i].tables[1].rows)}
           : i \in 1..Len(rows)}

\* The clickable header cells a user can reach: those of rows whose
\* enclosing tables are all shown.
RECURSIVE ShownHeaders(_)
ShownHeaders(rows) ==
    UNION {IF rows[i].tables = <<>> THEN {}
           ELSE {<<i>>} \cup
                (IF rows[i].tables[1].hidden THEN {}
                 ELSE {<<i>> \o q : q \in ShownHeaders(rows[i].tables[1].rows)})
           : i \in 1..Len(rows)}

\* tables.show() (line 176) on table.find("table"): every nested table.
RECURSIVE ShowTables(_)
ShowTables(rows) ==
    [i \in 1..Len(rows) |->
        IF rows[i].tables = <<>> THEN rows[i]
        ELSE [rows[i] EXCEPT !.tables =
                <<[hidden |-> FALSE, rows |-> ShowTables(@[1].rows)]>>]]

\* .toggle() (line 148)
Toggle(table) == [table EXCEPT !.hidden = ~@]

\* $(this).closest("tr").find("table:first").toggle() (lines 147-149) for
\* the header cell of the row at path p: the first table below that row is
\* the one in its own cell.
ToggleFirstTableMutant(rows, p) == ShowTables(rows)
RECURSIVE ToggleFirstTable(_, _)
ToggleFirstTable(rows, p) ==
    [i \in 1..Len(rows) |->
        IF i # Head(p) THEN rows[i]
        ELSE IF Len(p) = 1
        THEN [rows[i] EXCEPT !.tables = <<Toggle(@[1])>>]
        ELSE [rows[i] EXCEPT !.tables =
                <<[@[1] EXCEPT !.rows = ToggleFirstTable(@, Tail(p))]>>]]

\* Clicks are followed on the pages of the first MaxClickedCalls calls.
MaxClickedCalls == 1

\* A click on the header cell of a row with a nested table (lines 147-149).
ClickHeader(p) ==
    /\ Len(tableCalls) <= MaxClickedCalls
    /\ div # <<>>
    /\ p \in ShownHeaders(div[1].table.rows)
    /\ div' = <<[div[1] EXCEPT !.table.rows = ToggleFirstTable(@, p)]>>
    /\ UNCHANGED <<toasts, tableCalls, exceptTable>>

\* A click on the "Open All" button (lines 175-177).
ClickOpenAll ==
    /\ Len(tableCalls) <= MaxClickedCalls
    /\ div # <<>>
    /\ div[1].button
    /\ div' = <<[div[1] EXCEPT !.table.rows = ShowTables(@)]>>
    /\ UNCHANGED <<toasts, tableCalls, exceptTable>>

MaxDepth == 3
\* The paths of the documents: row numbers up to the longest row list.
HeaderPaths == UNION {[1..d -> 1..2] : d \in 1..MaxDepth}

NextTable == CallCreateTableFromJson

\* The page with its user: calls and clicks.
NextTableClicks ==
    \/ CallCreateTableFromJson
    \/ \E p \in HeaderPaths : ClickHeader(p)
    \/ ClickOpenAll

(***************************************************************************)
(* The content corpus (src/pages/posts/*.md and the unnamed post)          *)
(*                                                                         *)
(* A front matter line is the sequence of its tokens: each of the          *)
(* characters - : [ ] , ' " / and each digit is a token of its own, and    *)
(* the text between two of them, without the blanks around it, is one      *)
(* token.  The generator reads the documents one after the other, in one   *)
(* pass, a line at a time.                                                 *)
(***************************************************************************)
\* src/src/pages/posts/post-1.md, lines 1-8
Post1FrontMatter ==
    << <<"-", "-", "-">>,
       <<"layout", ":", "..", "/", "..", "/", "layouts", "/", "MarkdownPostLayout.astro">>,
       <<"title", ":", "'", "Exception Filters in ASP.NET Core", "'">>,
       <<"pubDate", ":", "2", "0", "2", "3", "-", "0", "9", "-", "1", "8">>,
       <<"description", ":", "'", "Learn how to use exception filters with dependency injection for effective error handling in ASP.NET Core.", "'">>,
       <<"author", ":", "'", "Kadir Yunus Demir", "'">>,
       <<"tags", ":", "[", "\"", "asp.net", "-", "core", "\"", ",", "\"", "asp.net", "6", "\"", ",", "\"", ".net", "6", "\"", "]">>,
       <<"-", "-", "-">> >>

\* post-2 dated the 31st of September
Post2FrontMatterMutant ==
    << <<"-", "-", "-">>,
       <<"layout", ":", "..", "/", "..", "/", "layouts", "/", "MarkdownPostLayout.astro">>,
       <<"title", ":", "'", "URL Extension Methods in ASP.NET Core", "'">>,
       <<"pubDate", ":", "2", "0", "2", "3", "-", "0", "9", "-", "3", "1">>,
       <<"description", ":", "'", "Learn how to use extension methods for compile", "-", "time checked urls.", "'">>,
       <<"author", ":", "'", "Kadir Yunus Demir", "'">>,
       <<"tags", ":", "[", "\"", "asp.net", "-", "core", "\"", ",", "\"", "asp.net", "6", "\"", ",", "\"", ".net", "6", "\"", "]">>,
       <<"-", "-", "-">> >>
\* src/src/pages/posts/post-2.md, lines 1-8
Post2FrontMatter ==
    << <<"-", "-", "-">>,
       <<"layout", ":", "..", "/", "..", "/", "layouts", "/", "MarkdownPostLayout.astro">>,
       <<"title", ":", "'", "URL Extension Methods in ASP.NET Core", "'">>,
       <<"pubDate", ":", "2", "0", "2", "3", "-", "0", "9", "-", "1", "8">>,
       <<"description", ":", "'", "Learn how to use extension methods for compile", "-", "time checked urls.", "'">>,
       <<"author", ":", "'", "Kadir Yunus Demir", "'">>,
       <<"tags", ":", "[", "\"", "asp.net", "-", "core", "\"", ",", "\"", "asp.net", "6", "\"", ",", "\"", ".net", "6", "\"", "]">>,
       <<"-", "-", "-">> >>

\* src/src/pages/posts/post-3.md, lines 1-39
Post3FrontMatter ==
    << <<"-", "-", "-">>,
       <<"layout", ":", "..", "/", "..", "/", "layouts", "/", "MarkdownPostLayout.astro">>,
       <<"title", ":", "'", "Dynamic SQL Query for Retrieving SQL Rows in ASP.NET Core", "'">>,
       <<"pubDate", ":", "2", "0", "2", "3", "-", "0", "9", "-", "2", "4">>,
       <<"description", ":", "'", "Learn how to retrieve generic objects from SQL Server using table names and object IDs in ASP.NET Core.", "'">>,
       <<"author", ":", "'", "Kadir Yunus Demir", "'">>,
       <<"tags", ":", "[">>,
       <<"\"", "ASP.NET Core", "\"", ",">>,
       <<"\"", "ASP.NET", "-", "Core", "\"", ",">>,
       <<"\"", "ASP.NET", "6", "\"", ",">>,
       <<"\"", ".NET", "6", "\"", ",">>,
       <<"\"", "Entity Framework Core", "7", "\"", ",">>,
       <<"\"", "Entity Framework Core", "6", "\"", ",">>,
       <<"\"", "EF CORE", "7", "\"", ",">>,
       <<"\"", "EF CORE", "6", "\"", ",">>,
       <<"\"", "SQL Server", "\"", ",">>,
       <<"\"", "MSSQL Server", "\"", ",">>,
       <<"\"", "SqlQueryRaw", "\"", ",">>,
       <<"\"", "FromSqlInterpolated", "\"", ",">>,
       <<"\"", "ExecuteSqlRaw", "\"", ",">>,
       <<"\"", "FOR JSON", "\"", ",">>,
       <<"\"", "Dynamic SQL Queries", "\"", ",">>,
       <<"\"", "Database Query Execution", "\"", ",">>,
       <<"\"", "Database Query Interpolation", "\"", ",">>,
       <<"\"", "SQL Query Execution", "\"", ",">>,
       <<"\"", "Database Query Optimization", "\"", ",">>,
       <<"\"", "SQL Server Optimization", "\"", ",">>,
       <<"\"", "Entity Framework Core", "\"", ",">>,
       <<"\"", "JSON Data Retrieval", "\"", ",">>,
       <<"\"", "SQL Injection Prevention", "\"", ",">>,
       <<"\"", "Stored Procedures", "\"", ",">>,
       <<"\"", "Database Table Names", "\"", ",">>,
       <<"\"", "Object IDs", "\"", ",">>,
       <<"\"", ".NET Development", "\"", ",">>,
       <<"\"", "Database Security", "\"", ",">>,
       <<"\"", "JSON Output", "\"">>,
       <<"]">>,
       <<>>,
       <<"-", "-", "-">> >>

\* post-4 with its author line lost
Post4FrontMatterMutant ==
    << <<"-", "-", "-">>,
       <<"layout", ":", "..", "/", "..", "/", "layouts", "/", "MarkdownPostLayout.astro">>,
       <<"title", ":", "'", "Creating a Whitespace Trimmer Model Binder in ASP.NET Core", "'">>,
       <<"pubDate", ":", "2", "0", "2", "3", "-", "0", "9", "-", "2", "4">>,
       <<"description", ":", "'", "Learn how to implement a custom model binder in ASP.NET Core to trim whitespace from user input.", "'">>,
       <<"tags", ":", "[", "\"", "asp.net", "-", "core", "\"", ",", "\"", "asp.net", "6", "\"", ",", "\"", ".net", "6", "\"", "]">>,
       <<"-", "-", "-">> >>
\* src/src/pages/posts/post-4.md, lines 1-8
Post4FrontMatter ==
    << <<"-", "-", "-">>,
       <<"layout", ":", "..", "/", "..", "/", "layouts", "/", "MarkdownPostLayout.astro">>,
       <<"title", ":", "'", "Creating a Whitespace Trimmer Model Binder in ASP.NET Core", "'">>,
       <<"pubDate", ":", "2", "0", "2", "3", "-", "0", "9", "-", "2", "4">>,
       <<"description", ":", "'", "Learn how to implement a custom model binder in ASP.NET Core to trim whitespace from user input.", "'">>,
       <<"author", ":", "'", "Kadir Yunus Demir", "'">>,
       <<"tags", ":", "[", "\"", "asp.net", "-", "core", "\"", ",", "\"", "asp.net", "6", "\"", ",", "\"", ".net", "6", "\"", "]">>,
       <<"-", "-", "-">> >>

\* src/src/pages/posts/post-5.md, lines 1-21
Post5FrontMatter ==
    << <<"-", "-", "-">>,
       <<"layout", ":", "..", "/", "..", "/", "layouts", "/", "MarkdownPostLayout.astro">>,
       <<"title", ":", "'", "Cascaded Dropdown List Operations in ASP.NET Core", "'">>,
       <<"pubDate", ":", "2", "0", "2", "3", "-", "1", "1", "-", "1", "7">>,
       <<"description", ":", "'", "Explore techniques for implementing cascaded dropdown lists in ASP.NET Core applications.", "'">>,
       <<"author", ":", "'", "Kadir Yunus Demir", "'">>,
       <<"tags", ":", "[">>,
       <<"\"", "ASP.NET Core", "\"", ",">>,
       <<"\"", "ASP.NET", "6", "\"", ",">>,
       <<"\"", ".NET", "6", "\"", ",">>,
       <<"\"", "Dropdown Lists", "\"", ",">>,
       <<"\"", "Cascaded Dropdown Lists", "\"", ",">>,
       <<"\"", "Dependent Dropdown Lists", "\"", ",">>,
       <<"\"", "Entity Framework Core", "\"", ",">>,
       <<"\"", "JavaScript", "\"", ",">>,
       <<"\"", "C#", "\"", ",">>,
       <<"\"", "Web Development", "\"", ",">>,
       <<"\"", "Select", "2", "\"", ",">>,
       <<"\"", "jQuery", "\"">>,
       <<"]">>,
       <<"-", "-", "-">> >>

\* src/src/pages/posts/post-6.md, lines 1-19
Post6FrontMatter ==
    << <<"-", "-", "-">>,
       <<"layout", ":", "..", "/", "..", "/", "layouts", "/", "MarkdownPostLayout.astro">>,
       <<"title", ":", "'", "Implementing a Confirmation", "-", "Based Action Handler in JavaScript", "'">>,
       <<"pubDate", ":", "2", "0", "2", "4", "-", "0", "6", "-", "0", "7">>,
       <<"description", ":", "'", "Learn how to create a versatile JavaScript function that manages user", "-", "confirmed actions with AJAX requests.", "'">>,
       <<"author", ":", "'", "Kadir Yunus Demir", "'">>,
       <<"tags", ":", "[">>,
       <<"\"", "JavaScript", "\"", ",">>,
       <<"\"", "AJAX", "\"", ",">>,
       <<"\"", "Web Development", "\"", ",">>,
       <<"\"", "User Experience", "\"", ",">>,
       <<"\"", "Confirmation Dialog", "\"", ",">>,
       <<"\"", "Front", "-", "End Development", "\"", ",">>,
       <<"\"", "jQuery", "\"", ",">>,
       <<"\"", "toastr", "\"", ",">>,
       <<"\"", "Error Handling", "\"", ",">>,
       <<"\"", "Code Tutorial", "\"">>,
       <<"]">>,
       <<"-", "-", "-">> >>

\* src/unnamed/part_000, lines 1-22
UnnamedPostFrontMatter ==
    << <<"-", "-", "-">>,
       <<"layout", ":", "..", "/", "..", "/", "layouts", "/", "MarkdownPostLayout.astro">>,
       <<"title", ":", "'", "Creating a Nested HTML Table from JSON Data with JavaScript", "'">>,
       <<"pubDate", ":", "2", "0", "2", "4", "-", "0", "6", "-", "0", "7">>,
       <<"description", ":", "'", "Learn how to create a dynamic", ",", "nested HTML table from JSON data using JavaScript and jQuery.", "'">>,
       <<"author", ":", "'", "Kadir Yunus Demir", "'">>,
       <<"tags", ":", "[">>,
       <<"\"", "JavaScript", "\"", ",">>,
       <<"\"", "JSON", "\"", ",">>,
       <<"\"", "Web Development", "\"", ",">>,
       <<"\"", "User Experience", "\"", ",">>,
       <<"\"", "HTML Tables", "\"", ",">>,
       <<"\"", "Nested HTML Tables", "\"", ",">>,
       <<"\"", "Dynamic HTML Tables", "\"", ",">>,
       <<"\"", "Front", "-", "End Development", "\"", ",">>,
       <<"\"", "jQuery", "\"", ",">>,
       <<"\"", "toastr", "\"", ",">>,
       <<"\"", "AJAX", "\"", ",">>,
       <<"\"", "Data Visualization", "\"", ",">>,
       <<"\"", "Code Tutorial", "\"">>,
       <<"]">>,
       <<"-", "-", "-">> >>

\* A path is the sequence of its segments, a segment the sequence of its
\* tokens.
PostsDirectory == << <<"src">>, <<"pages">>, <<"posts">> >>
PostPath(k) == Append(PostsDirectory, <<"post", "-", k, ".md">>)

\* The unnamed post: its file name is not part of the sources; it is taken
\* to sit beside the six posts.
UnnamedPostPath == Append(PostsDirectory, <<"unnamed", ".md">>)

\* The shared page layout every post names.
LayoutTemplatePath == << <<"src">>, <<"layouts">>, <<"MarkdownPostLayout.astro">> >>

Document(path, lines) == [path |-> path, lines |-> lines]

Documents ==
    << Document(PostPath("1"), Post1FrontMatter),
       Document(PostPath("2"), Post2FrontMatter),
       Document(PostPath("3"), Post3FrontMatter),
       Document(PostPath("4"), Post4FrontMatter),
       Document(PostPath("5"), Post5FrontMatter),
       Document(PostPath("6"), Post6FrontMatter),
       Document(UnnamedPostPath, UnnamedPostFrontMatter) >>

\* The files of the repository the model knows of.
RepositoryFiles ==
    {Documents[k].path : k \in 1..Len(Documents)}
    \cup {<< <<"astro.config.mjs">> >>, LayoutTemplatePath}

Quotes == {"'", "\""}
FlowIndicators == {"[", "]", ","}

IsDelimiter(line) == line = <<"-", "-", "-">>
IsBlank(line) == line = <<>>

Scalar(q, toks) == [q |-> q, toks |-> toks]
NoParse == [ok |-> FALSE, value |-> Scalar("", <<>>), rest |-> <<>>]

\* The first position of token q in toks, or 0.
IndexOf(toks, q) ==
    IF \E j \in 1..Len(toks) : toks[j] = q
    THEN CHOOSE j \in 1..Len(toks) : toks[j] = q /\ \A i \in 1..(j - 1) : toks[i] # q
    ELSE 0

\* The length of the plain scalar toks starts with: it ends before a flow
\* indicator when inFlow, and at the end of the line otherwise.
PlainLength(toks, inFlow) ==
    IF inFlow /\ \E j \in 1..Len(toks) : toks[j] \in FlowIndicators
    THEN (CHOOSE j \in 1..Len(toks) :
             toks[j] \in FlowIndicators /\ \A i \in 1..(j - 1) : toks[i] \notin FlowIndicators) - 1
    ELSE Len(toks)

\* One scalar at the start of toks: quoted up to the closing quote, or
\* plain (no quote, ':' or flow indicator inside).
ParseScalar(toks, inFlow) ==
    IF toks = <<>> THEN NoParse
    ELSE IF Head(toks) \in Quotes
    THEN LET close == IndexOf(Tail(toks), Head(toks))
         IN IF close = 0 THEN NoParse
            ELSE [ok |-> TRUE,
                  value |-> Scalar(Head(toks), SubSeq(Tail(toks), 1, close - 1)),
                  rest |-> SubSeq(Tail(toks), close + 1, Len(toks) - 1)]
    ELSE LET n == PlainLength(toks, inFlow)
             body == SubSeq(toks, 1, n)
         IN IF n = 0 \/ \E j \in 1..n : body[j] \in Quotes \cup FlowIndicators \cup {":"}
            THEN NoParse
            ELSE [ok |-> TRUE, value |-> Scalar("", body),
                  rest |-> SubSeq(toks, n + 1, Len(toks))]

\* The entries of a flow sequence on one line, after the items read so far:
\* items are separated by ',', ']' closes the sequence, and a sequence
\* still open at the end of the line goes on at the next.
RECURSIVE ParseItems(_, _, _)
ParseItems(toks, items, afterItem) ==
    IF toks = <<>>
    THEN [ok |-> TRUE, items |-> items, afterItem |-> afterItem, closed |-> FALSE]
    ELSE IF Head(toks) = "]"
    THEN [ok |-> Tail(toks) = <<>>, items |-> items, afterItem |-> afterItem,
          closed |-> TRUE]
    ELSE IF Head(toks) = ","
    THEN IF afterItem THEN ParseItems(Tail(toks), items, FALSE)
         ELSE [ok |-> FALSE, items |-> items, afterItem |-> afterItem, closed |-> FALSE]
    ELSE IF afterItem
    THEN [ok |-> FALSE, items |-> items, afterItem |-> afterItem, closed |-> FALSE]
    ELSE LET sc == ParseScalar(toks, TRUE)
         IN IF sc.ok THEN ParseItems(sc.rest, Append(items, sc.value), TRUE)
            ELSE [ok |-> FALSE, items |-> items, afterItem |-> afterItem,
                  closed |-> FALSE]

ScalarValue(sc) == [kind |-> "scalar", q |-> sc.q, toks |-> sc.toks, items |-> <<>>]
SequenceValue(items) == [kind |-> "sequence", q |-> "", toks |-> <<>>, items |-> items]
NullValue == [kind |-> "null", q |-> "", toks |-> <<>>, items |-> <<>>]

\* A line "key: ..." of the mapping: the key and what follows the colon.
IsEntry(line) ==
    /\ Len(line) >= 2
    /\ line[1] \notin Quotes \cup FlowIndicators \cup {":", "-", "/"}
    /\ line[2] = ":"

\* The reader's state inside one document.
Reader(mode, fields, curKey, curItems, afterItem) ==
    [mode |-> mode, fields |-> fields, curKey |-> curKey, curItems |-> curItems,
     afterItem |-> afterItem]
NoFields == [k \in {} |-> NullValue]
AtStart == Reader("start", NoFields, "", <<>>, FALSE)
Failed(rd) == [rd EXCEPT !.mode = "error"]
WithField(rd, key, value) ==
    [rd EXCEPT !.mode = "front", !.fields = (key :> value) @@ rd.fields,
               !.curKey = "", !.curItems = <<>>, !.afterItem = FALSE]

\* A mapping entry: "key:" alone, "key: scalar", or "key: [" with the
\* items that follow on the line.  A key may appear once.
ReadEntryLine(rd, line) ==
    IF ~IsEntry(line) \/ line[1] \in DOMAIN rd.fields THEN Failed(rd)
    ELSE LET key == line[1]
             rest == SubSeq(line, 3, Len(line))
         IN IF rest = <<>> THEN WithField(rd, key, NullValue)
            ELSE IF Head(rest) = "["
            THEN LET r == ParseItems(Tail(rest), <<>>, FALSE)
                 IN IF ~r.ok THEN Failed(rd)
                    ELSE IF r.closed THEN WithField(rd, key, SequenceValue(r.items))
                    ELSE Reader("flow", rd.fields, key, r.items, r.afterItem)
            ELSE LET sc == ParseScalar(rest, FALSE)
                 IN IF sc.ok /\ sc.rest = <<>>
                    THEN WithField(rd, key, ScalarValue(sc.value))
                    ELSE Failed(rd)

\* A line inside a flow sequence left open by the lines before.
ReadFlowItems(rd, line) ==
    IF IsDelimiter(line) THEN Failed(rd)
    ELSE LET r == ParseItems(line, rd.curItems, rd.afterItem)
         IN IF ~r.ok THEN Failed(rd)
            ELSE IF r.closed THEN WithField(rd, rd.curKey, SequenceValue(r.items))
            ELSE Reader("flow", rd.fields, rd.curKey, r.items, r.afterItem)

InitCorpus ==
    /\ docIdx = 1
    /\ lineNo = 1
    /\ reader = AtStart
    /\ parsed = <<>>

HasLine == docIdx <= Len(Documents) /\ lineNo <= Len(Documents[docIdx].lines)
CurrentLine == Documents[docIdx].lines[lineNo]

\* The first line of a document opens its front matter.
OpenFrontMatter ==
    /\ HasLine /\ reader.mode = "start"
    /\ reader' = IF IsDelimiter(CurrentLine) THEN [reader EXCEPT !.mode = "front"]
                 ELSE Failed(reader)
    /\ lineNo' = lineNo + 1
    /\ UNCHANGED <<docIdx, parsed, exceptCorpus>>

ReadEntry ==
    /\ HasLine /\ reader.mode = "front"
    /\ ~IsBlank(CurrentLine) /\ ~IsDelimiter(CurrentLine)
    /\ reader' = ReadEntryLine(reader, CurrentLine)
    /\ lineNo' = lineNo + 1
    /\ UNCHANGED <<docIdx, parsed, exceptCorpus>>

ReadFlowLine ==
    /\ HasLine /\ reader.mode = "flow"
    /\ ~IsBlank(CurrentLine)
    /\ reader' = ReadFlowItems(reader, CurrentLine)
    /\ lineNo' = lineNo + 1
    /\ UNCHANGED <<docIdx, parsed, exceptCorpus>>

SkipBlankLine ==
    /\ HasLine /\ reader.mode \in {"front", "flow"}
    /\ IsBlank(CurrentLine)
    /\ lineNo' = lineNo + 1
    /\ UNCHANGED <<docIdx, reader, parsed, exceptCorpus>>

\* The closing delimiter ends the front matter: the fields go to the
\* layout and the pass moves on to the next document.
CloseFrontMatter ==
    /\ HasLine /\ reader.mode = "front"
    /\ IsDelimiter(CurrentLine)
    /\ parsed' = Append(parsed, reader.fields)
    /\ docIdx' = docIdx + 1
    /\ lineNo' = 1
    /\ reader' = AtStart
    /\ UNCHANGED exceptCorpus

NextCorpus ==
    OpenFrontMatter \/ ReadEntry \/ ReadFlowLine \/ SkipBlankLine \/ CloseFrontMatter

(***************************************************************************)
(* cascadedDropdownList (post-5.md, lines 55-87)                           *)
(***************************************************************************)
MaxChanges == 3

\* The values of the parent select; "" is its blank option.
ParentValues == {"", "unit-1", "unit-2"}

\* new Option() and new Option(item.text, item.value)
BlankOption == [text |-> "", value |-> ""]
Option(item) == [text |-> item.text, value |-> item.value]

\* The data the url answers for an id: a list of {text, value} items.
DepartmentsOf(id) ==
    IF id = "unit-1"
    THEN << [text |-> "Physics", value |-> "11"], [text |-> "Chemistry", value |-> "12"] >>
    ELSE << [text |-> "History", value |-> "21"] >>

\* The page as rendered: no unit chosen, the child with its blank option.
InitDropdown ==
    /\ parentValue = ""
    /\ child = <<BlankOption>>
    /\ pending = <<>>
    /\ ddBlocked = FALSE
    /\ ddHistory = [changes |-> 0, failed |-> FALSE, overlapped |-> FALSE]

\* The 'change' handler of the parent (lines 56-86) for the new value v:
\* with a value it blocks the UI and sends the request, without one it
\* empties the child.
ParentChange(v) ==
    /\ ddHistory.changes < MaxChanges
    /\ parentValue' = v
    /\ ddHistory' = [ddHistory EXCEPT !.changes = @ + 1,
                                      !.overlapped = @ \/ pending # <<>>]
    /\ IF v # ""
       THEN /\ ddBlocked' = TRUE
            /\ pending' = Append(pending, v)
            /\ UNCHANGED child
       ELSE /\ child' = <<>>
            /\ UNCHANGED <<ddBlocked, pending>>
    /\ UNCHANGED exceptDropdown

Without(seq, k) == SubSeq(seq, 1, k - 1) \o SubSeq(seq, k + 1, Len(seq))

\* success: function (data) (lines 67-76): empty, a blank option, then one
\* option per item.
FillChild(data) == <<BlankOption>> \o [j \in 1..Len(data) |-> Option(data[j])]

\* Any request in flight may be the next one answered.
RequestSuccess(k) ==
    /\ k \in 1..Len(pending)
    /\ child' = FillChild(DepartmentsOf(pending[k]))
    /\ ddBlocked' = FALSE
    /\ pending' = Without(pending, k)
    /\ UNCHANGED <<parentValue, ddHistory, exceptDropdown>>

\* error: function () (lines 77-79)
RequestError(k) ==
    /\ k \in 1..Len(pending)
    /\ ddBlocked' = FALSE
    /\ pending' = Without(pending, k)
    /\ ddHistory' = [ddHistory EXCEPT !.failed = TRUE]
    /\ UNCHANGED <<parentValue, child, exceptDropdown>>

NextDropdown ==
    \/ \E v \in ParentValues : ParentChange(v)
    \/ \E k \in 1..MaxChanges : RequestSuccess(k) \/ RequestError(k)

(***************************************************************************)
(* TrimWhitespaceModelBinder (post-4.md, lines 13-40)                      *)
(*                                                                         *)
(* A string is the sequence of its characters; a ValueProviderResult is    *)
(* the sequence of its values.                                             *)
(***************************************************************************)
MaxBindCalls == 2
MaxStringLength == 2

WhiteSpaceChars == {" ", "\t"}
Chars == WhiteSpaceChars \cup {"a"}
Strings == UNION {[1..n -> Chars] : n \in 0..MaxStringLength}

ModelNames == {"Name", "Email"}

\* ValueProviderResult.None has no values; a result differs from it when it
\* has some.
ValueProviderResultNone == <<>>
ValueProviderResults ==
    {ValueProviderResultNone}
    \cup {<<s>> : s \in Strings}
    \cup {<<s, <<" ", "a">> >> : s \in Strings}

FirstValue(valueProviderResult) == valueProviderResult[1]

RECURSIVE StringTrimStart(_)
StringTrimStart(s) ==
    IF s # <<>> /\ Head(s) \in WhiteSpaceChars THEN StringTrimStart(Tail(s)) ELSE s

RECURSIVE StringTrimEnd(_)
StringTrimEnd(s) ==
    IF s # <<>> /\ s[Len(s)] \in WhiteSpaceChars
    THEN StringTrimEnd(SubSeq(s, 1, Len(s) - 1)) ELSE s

\* string.Trim() (line 27)
StringTrimMutant(s) == StringTrimStart(s)
StringTrim(s) == StringTrimEnd(StringTrimStart(s))

\* ModelBindingResult: the default one and Success(model)
ResultNotSet   == [isModelSet |-> FALSE, model |-> <<>>]
Success(model) == [isModelSet |-> TRUE, model |-> model]

\* ModelState: per key, the raw value set for it, if any.
NoModelValue == [isSet |-> FALSE, values |-> <<>>]
SetModelValue(state, key, valueProviderResult) ==
    [state EXCEPT ![key] = [isSet |-> TRUE, values |-> valueProviderResult]]

\* BindModelAsync (lines 15-39) on a context with this ModelName, Result and
\* ModelState, whose value provider answers valueProviderResult; a null
\* context throws.
BindModelAsync(isNull, modelName, result, state, valueProviderResult) ==
    IF isNull
    THEN [result |-> result, state |-> state, outcome |-> "ArgumentNullException"]
    ELSE IF valueProviderResult # ValueProviderResultNone
    THEN LET trimmedString == StringTrim(FirstValue(valueProviderResult))
         IN [result |-> Success(trimmedString),
             state |-> SetModelValue(state, modelName, <<trimmedString>>),
             outcome |-> "completed"]
    ELSE [result |-> result, state |-> state, outcome |-> "completed"]

InitBinder ==
    /\ bindingResult = ResultNotSet
    /\ modelState = [key \in ModelNames |-> NoModelValue]
    /\ lastBind = [isNull |-> FALSE, modelName |-> "", values |-> <<>>, outcome |-> "none"]
    /\ bindCount = 0

CallBindModelAsync ==
    /\ bindCount < MaxBindCalls
    /\ \E isNull \in BOOLEAN, modelName \in ModelNames, values \in ValueProviderResults :
         LET res == BindModelAsync(isNull, modelName, bindingResult, modelState, values)
         IN /\ bindingResult' = res.result
            /\ modelState' = res.state
            /\ lastBind' = [isNull |-> isNull, modelName |-> modelName,
                            values |-> values, outcome |-> res.outcome]
    /\ bindCount' = bindCount + 1
    /\ UNCHANGED exceptBinder

NextBinder == CallBindModelAsync

(***************************************************************************)
(* ActionBuilder (post-2.md, lines 43-64)                                  *)
(*                                                                         *)
(* The text of an argument expression is the sequence of its pieces:       *)
(* "nameof(", ")", ".", " ", "Controller" and the other parts of names.    *)
(***************************************************************************)
MaxBuildCalls == 2
MaxNameParts == 2

\* Identifiers: one or more parts; "Controller" may be one of them.
NameParts == {"Home", "Index", "Controller"}
Identifiers == UNION {[1..n -> NameParts] : n \in 1..MaxNameParts}

\* The text [CallerArgumentExpression("nameOfAction")] captures (line 43)
\* for nameof(XController.Y) and for nameof(XController).
NameofMember(x, y) == Str(<<"nameof(">> \o x \o <<"Controller", ".">> \o y \o <<")">>)
NameofType(x)      == Str(<<"nameof(">> \o x \o <<"Controller", ")">>)

\* Other arguments: a method of the page itself, a string literal, a class
\* named Controller, the same after a blank.
OtherExpressions ==
    { Str(<<"nameof(", "Index", ")">>),
      Str(<<"\"", "Index", "\"">>),
      Str(<<"nameof(", "Controller", ".", "Index", ")">>),
      Str(<<"nameof(", " ", "Controller", ".", "Index", ")">>) }

\* fullTypeName.Contains(value)
StringContains(t, value) == \E i \in 1..Len(t.chars) : t.chars[i] = value

\* t.Replace(oldValue, string.Empty): every occurrence is removed.
ReplaceWithEmpty(t, oldValue) ==
    LET Keep(c) == c # oldValue IN Str(SelectSeq(t.chars, Keep))

\* string.IsNullOrWhiteSpace of a piece of the split
IsNullOrWhiteSpace(cs) == \A i \in 1..Len(cs) : cs[i] = " "

\* urlHelper.Action(actionName, controllerName) and string.Empty
UrlAction(actionName, controllerName) ==
    [isUrl |-> TRUE, action |-> actionName, controller |-> controllerName]
StringEmpty == [isUrl |-> FALSE, action |-> <<>>, controller |-> <<>>]

\* ActionBuilder (lines 43-64)
ActionBuilder(fullTypeName) ==
    IF ~StringContains(fullTypeName, "Controller") THEN StringEmpty
    ELSE LET array == Split(ReplaceWithEmpty(
                               ReplaceWithEmpty(
                                   ReplaceWithEmpty(fullTypeName, "nameof("),
                                   "Controller"),
                               ")"), ".")
             controllerName == array[1]
             actionName == IF Len(array) > 1 THEN array[2] ELSE <<>>
         IN IF IsNullOrWhiteSpace(controllerName) THEN StringEmpty
            ELSE UrlAction(actionName, controllerName)

NoName == <<>>

InitUrl ==
    /\ lastBuild = [form |-> "none", x |-> NoName, y |-> NoName,
                    expression |-> Str(<<>>), result |-> StringEmpty]
    /\ buildCount = 0

\* Url.ActionBuilder(nameof(XController.Y)) (line 72)
BuildMemberUrl ==
    /\ buildCount < MaxBuildCalls
    /\ \E x, y \in Identifiers :
         lastBuild' = [form |-> "member", x |-> x, y |-> y,
                       expression |-> NameofMember(x, y),
                       result |-> ActionBuilder(NameofMember(x, y))]
    /\ buildCount' = buildCount + 1
    /\ UNCHANGED exceptUrl

\* Url.ActionBuilder(nameof(XController))
BuildTypeUrl ==
    /\ buildCount < MaxBuildCalls
    /\ \E x \in Identifiers :
         lastBuild' = [form |-> "type", x |-> x, y |-> NoName,
                       expression |-> NameofType(x),
                       result |-> ActionBuilder(NameofType(x))]
    /\ buildCount' = buildCount + 1
    /\ UNCHANGED exceptUrl

\* Url.ActionBuilder(...) with another argument
BuildOtherUrl ==
    /\ buildCount < MaxBuildCalls
    /\ \E t \in OtherExpressions :
         lastBuild' = [form |-> "other", x |-> NoName, y |-> NoName,
                       expression |-> t, result |-> ActionBuilder(t)]
    /\ buildCount' = buildCount + 1
    /\ UNCHANGED exceptUrl

NextUrl == BuildMemberUrl \/ BuildTypeUrl \/ BuildOtherUrl

(***************************************************************************)
(* Specifications                                                          *)
(***************************************************************************)
Init == InitConfirm /\ InitSql /\ InitTable /\ InitCorpus /\ InitDropdown /\ InitBinder /\ InitUrl

SpecConfirm == Init /\ [][NextConfirm]_vars
\* While requests are pending, one of them is answered or fails in the end.
SpecConfirmFair ==
    SpecConfirm /\ WF_vars(\E i \in Invocations : AjaxSuccess(i) \/ AjaxError(i))
SpecSql     == Init /\ [][NextSql]_vars
SpecTable   == Init /\ [][NextTable]_vars
SpecTableClicks == Init /\ [][NextTableClicks]_vars
SpecCorpus  == Init /\ [][NextCorpus]_vars
SpecDropdown == Init /\ [][NextDropdown]_vars
SpecBinder  == Init /\ [][NextBinder]_vars
SpecUrl     == Init /\ [][NextUrl]_vars

(***************************************************************************)
(* Claims about executeActionWithConfirmation                              *)
(***************************************************************************)

\* C7: every invocation prevents the event's default action; a request is
\* sent only if confirm() returned true; an invocation the user declined
\* sends no request and never has successCallback or errorCallback invoked.
C7_ProceedsOnlyAfterConfirmation ==
    \A i \in Invocations :
        /\ inv[i].pc # "idle" => inv[i].prevented
        /\ inv[i].requestSent => inv[i].confirmResult = "yes"
        /\ inv[i].confirmResult = "no" =>
              /\ ~inv[i].requestSent
              /\ inv[i].pc = "declined"
              /\ inv[i].succCalls = 0
              /\ inv[i].errCalls = 0

\* One invocation was declined while another, confirmed, ran to its callback.
C7_Witness ==
    \E i, j \in Invocations :
        /\ inv[i].confirmResult = "no" /\ inv[i].prevented
        /\ inv[j].confirmResult = "yes" /\ inv[j].pc = "done"

\* The statusCode values of the model for which statusCode == 0 is true in
\* JavaScript: the number 0 and the string "0".
C10_EqualsZero == {JsNum(0), JsStr("0")}

\* C10: a confirmed invocation whose request completed has had exactly one
\* callback invoked, once: successCallback(resultMessage) on success with
\* statusCode == 0, errorCallback(resultMessage) on success with any other
\* statusCode, errorCallback('An error occurred.') on failure; before the
\* request completes neither has been invoked.
C10_ExactlyOneCallback ==
    \A i \in Invocations :
        LET r == inv[i] IN
        /\ r.pc # "done" => r.succCalls = 0 /\ r.errCalls = 0
        /\ r.pc = "done" =>
              /\ r.succCalls + r.errCalls = 1
              /\ (r.outcome = "success" /\ r.response.statusCode \in C10_EqualsZero)
                    => r.succCalls = 1 /\ r.succArg = r.response.resultMessage
              /\ (r.outcome = "success" /\ r.response.statusCode \notin C10_EqualsZero)
                    => r.errCalls = 1 /\ r.errArg = r.response.resultMessage
              /\ r.outcome = "error"
                    => r.errCalls = 1 /\ r.errArg = ErrorOccurred

\* One request succeeded with a non-zero statusCode and another one failed.
C10_Witness ==
    \E i, j \in Invocations :
        /\ inv[i].pc = "done" /\ inv[i].outcome = "success"
        /\ inv[i].response.statusCode = JsNum(1) /\ inv[i].errCalls = 1
        /\ inv[j].pc = "done" /\ inv[j].outcome = "error" /\ inv[j].errCalls = 1

\* Invocation i runs with both default callbacks.
C11_Defaults(i) ==
    inv[i].opts.successCallback = "default" /\ inv[i].opts.errorCallback = "default"

\* The step in which the request of invocation i completes.
C11_Completes(i) == inv[i].pc = "inflight" /\ inv'[i].pc = "done"

\* C11: with the default callbacks, the completion of a request leaves the
\* page on success with statusCode == 0 (to reloadUrl when it is set, by a
\* reload otherwise) and unblocks the UI on any other statusCode and on a
\* failed request; and whenever such a request is in flight behind the
\* blocked UI, the UI is unblocked or the page left in the end.
C11_BlockedUiIsReleased ==
    /\ [][\A i \in Invocations :
            (C11_Completes(i) /\ C11_Defaults(i)) =>
                IF inv'[i].outcome = "success"
                   /\ inv'[i].response.statusCode \in C10_EqualsZero
                THEN page' = (IF inv[i].opts.reloadUrl = "null" THEN "reloaded"
                              ELSE "navigated")
                ELSE page' = "here" /\ ~uiBlocked']_vars
    /\ (\E i \in Invocations :
            inv[i].pc = "inflight" /\ C11_Defaults(i) /\ uiBlocked /\ page = "here")
          ~> (~uiBlocked \/ page # "here")

\* A request with the default callbacks failed and the UI is free again,
\* while another one took the page to its reloadUrl.
C11_Witness ==
    \E i, j \in Invocations :
        /\ inv[i].pc = "done" /\ C11_Defaults(i) /\ inv[i].outcome = "error"
        /\ inv[j].pc = "done" /\ C11_Defaults(j) /\ inv[j].outcome = "success"
        /\ inv[j].opts.reloadUrl = "/list" /\ page = "navigated"

(***************************************************************************)
(* Claims about the table-name guard                                       *)
(***************************************************************************)

\* C9: a call executes a statement only for a non-empty name that is one of
\* the model's schema-qualified table names; for every other name it
\* returns "Invalid table name: " + name and executes nothing.
C9_TableNameGuard ==
    \A k \in 1..Len(sqlLog) :
        LET c == sqlLog[k]
            known == ~c.name.isNull /\ c.name.chars # <<>> /\ c.name \in TableNames
        IN /\ c.executed # <<>> => known
           /\ ~known =>
                /\ c.executed = <<>>
                /\ c.ret.kind = "message"
                /\ c.ret.text.chars = <<"Invalid table name: ">> \o c.name.chars

\* An injection attempt was turned away and a known table was queried.
C9_Witness ==
    \E j, k \in 1..Len(sqlLog) :
        /\ sqlLog[j].name = Str(<<"dbo", ".", "Users", ";", "DROP TABLE Users">>)
        /\ sqlLog[j].ret.kind = "message"
        /\ sqlLog[k].name = Str(<<"dbo", ".", "Users">>)
        /\ sqlLog[k].executed # <<>>

(***************************************************************************)
(* Claims about createTableFromJson                                        *)
(***************************************************************************)

\* The value a call renders: the object itself, or the parsed JSON text.
C8_Rendered(jsonData) ==
    IF jsonData.ty = "object" THEN jsonData.obj ELSE JsonParse(jsonData.text)

\* The call is in the claim's case: an object, or a string holding valid JSON.
C8_InCase(jsonData) ==
    \/ jsonData.ty = "object"
    \/ jsonData.ty = "string" /\ JsonParses(jsonData.text)

\* C8: after a call with an object or a valid JSON string, the div holds
\* its previous content followed by the generated table.
C8_AppendsToDiv ==
    tableCalls # <<>> =>
        LET c == tableCalls[Len(tableCalls)]
        IN C8_InCase(c.jsonData) =>
             div = Append(c.before, CreateTable(C8_Rendered(c.jsonData)))

(***************************************************************************)
(* Claims about the content corpus                                         *)
(***************************************************************************)

\* The fields of a Post the layout reads from the front matter.
RequiredFields == {"layout", "title", "pubDate", "description", "author", "tags"}

\* C1: the front matter of every document parses as well-formed key/value
\* data (no malformed line, no front matter left open at the end of its
\* lines) and every parsed document has all six required fields.
C1_FrontMatterWellFormed ==
    /\ reader.mode # "error"
    /\ docIdx <= Len(Documents) => lineNo <= Len(Documents[docIdx].lines)
    /\ \A k \in 1..Len(parsed) : RequiredFields \subseteq DOMAIN parsed[k]

\* The pass has read all seven documents, multi-line tag lists included.
C1_Witness ==
    /\ Len(parsed) = Len(Documents)
    /\ \A k \in 1..Len(parsed) : parsed[k]["tags"].kind = "sequence"
    /\ Len(parsed[3]["tags"].items) = 29

IsDigit(t) == \E i \in 1..Len(Digits) : Digits[i] = t
DigitValue(t) == (CHOOSE i \in 1..Len(Digits) : Digits[i] = t) - 1
Number(ts) ==
    LET RECURSIVE Value(_)
        Value(n) == IF n = 0 THEN 0 ELSE 10 * Value(n - 1) + DigitValue(ts[n])
    IN Value(Len(ts))

IsLeapYear(y) == (y % 4 = 0 /\ y % 100 # 0) \/ y % 400 = 0
DaysInMonth(y, m) ==
    IF m = 2 THEN (IF IsLeapYear(y) THEN 29 ELSE 28)
    ELSE IF m \in {4, 6, 9, 11} THEN 30 ELSE 31

\* A plain scalar yyyy-mm-dd that names a day of the calendar.
IsCalendarDate(v) ==
    /\ v.kind = "scalar" /\ v.q = ""
    /\ Len(v.toks) = 10
    /\ v.toks[5] = "-" /\ v.toks[8] = "-"
    /\ \A j \in {1, 2, 3, 4, 6, 7, 9, 10} : IsDigit(v.toks[j])
    /\ LET y == Number(SubSeq(v.toks, 1, 4))
           m == Number(SubSeq(v.toks, 6, 7))
           d == Number(SubSeq(v.toks, 9, 10))
       IN m \in 1..12 /\ d \in 1..DaysInMonth(y, m)

\* A relative path resolved against a directory; "outside" when it climbs
\* above the repository's root.
RECURSIVE ResolveFrom(_, _)
ResolveFrom(dir, segs) ==
    IF segs = <<>> THEN dir
    ELSE IF Head(segs) = <<"..">>
    THEN IF dir = <<>> THEN << <<"outside">> >>
         ELSE ResolveFrom(SubSeq(dir, 1, Len(dir) - 1), Tail(segs))
    ELSE IF Head(segs) = <<".">> THEN ResolveFrom(dir, Tail(segs))
    ELSE ResolveFrom(Append(dir, Head(segs)), Tail(segs))

LayoutOf(k) ==
    ResolveFrom(SubSeq(Documents[k].path, 1, Len(Documents[k].path) - 1),
                SplitFrom(parsed[k]["layout"].toks, "/", <<>>))

C12_ChildFor(v) ==
    IF v = "" THEN <<>> ELSE FillChild(DepartmentsOf(v))

\* Some change happened and every request sent was answered successfully.
C12_Settled ==
    ddHistory.changes > 0 /\ pending = <<>> /\ ~ddHistory.failed

\* C12: once every request has completed successfully, the child is empty
\* for an empty parent value and otherwise holds one blank option followed
\* by the items returned for the parent's current value.
C12_ChildFollowsParent ==
    C12_Settled => child = C12_ChildFor(parentValue)

\* The same for the runs in which no change event arrives while a request
\* is in flight, that is while the UI is blocked.
C12_ChildFollowsParentWhenSerialized ==
    (C12_Settled /\ ~ddHistory.overlapped) => child = C12_ChildFor(parentValue)

(***************************************************************************)
(* Claims about the visibility of nested tables                            *)
(***************************************************************************)

\* Whether the nested table at path p is hidden (its own display state).
RECURSIVE C13_HiddenAt(_, _)
C13_HiddenAt(rows, p) ==
    IF Len(p) = 1 THEN rows[Head(p)].tables[1].hidden
    ELSE C13_HiddenAt(rows[Head(p)].tables[1].rows, Tail(p))

C13_Rows(children) == IF children = <<>> THEN <<>> ELSE children[1].table.rows

\* The display state of every nested table of the div.
C13_Hidden(children) ==
    [p \in TablePaths(C13_Rows(children)) |-> C13_HiddenAt(C13_Rows(children), p)]

\* The value the last rendering call was given.
C13_Rendered(calls) ==
    LET k == CHOOSE i \in 1..Len(calls) :
                 /\ calls[i].outcome = "rendered"
                 /\ \A j \in (i + 1)..Len(calls) : calls[j].outcome # "rendered"
        arg == calls[k].jsonData
    IN IF arg.ty = "object" THEN arg.obj ELSE JsonParse(arg.text)

\* The data has a property whose value is an object (or an array).
C13_HasObjectValue(v) ==
    \E i \in 1..Len(ForIn(v)) : ForIn(v)[i][2].ty \in {"object", "array"}

C13_Renders ==
    /\ Len(tableCalls') = Len(tableCalls) + 1
    /\ tableCalls'[Len(tableCalls')].outcome = "rendered"

\* C13: every nested table starts hidden; a click on a header cell flips the
\* display state of the table nested in that row and of no other table; the
\* "Open All" button exists exactly when the data has an object value, and a
\* click on it shows every nested table and hides none.
C13_NestedTableVisibility ==
    /\ [](div # <<>> => (div[1].button <=> C13_HasObjectValue(C13_Rendered(tableCalls))))
    /\ [][/\ C13_Renders => \A p \in DOMAIN C13_Hidden(div') : C13_Hidden(div')[p]
          /\ \A p \in HeaderPaths :
                ClickHeader(p) =>
                    C13_Hidden(div') = [C13_Hidden(div) EXCEPT ![p] = ~@]
          /\ ClickOpenAll =>
                /\ DOMAIN C13_Hidden(div') = DOMAIN C13_Hidden(div)
                /\ \A p \in DOMAIN C13_Hidden(div') : ~C13_Hidden(div')[p]]_vars

\* The deep document is on the page, with the button, after clicks that left
\* the table of "a" shown, the one below it shown and the list hidden.
C13_Witness ==
    /\ div # <<>>
    /\ C13_Rendered(tableCalls) = DeepDoc
    /\ div[1].button
    /\ C13_Hidden(div) = (<<1>> :> FALSE) @@ (<<1, 1>> :> FALSE)
                            @@ (<<2>> :> TRUE) @@ (<<2, 2>> :> TRUE)

(***************************************************************************)
(* Claims about the error handling of createTableFromJson                  *)
(***************************************************************************)

\* null, undefined, the empty string or a string of white space only
C14_Blank(arg) ==
    \/ arg.ty \in {"undefined", "null"}
    \/ arg.ty = "string" /\ \A i \in 1..Len(arg.text) : arg.text[i].kind = "ws"

C14_IsText(piece) == piece.kind # "ws"

\* a string that is not blank and is not one JSON text with white space
\* around it
C14_InvalidJson(arg) ==
    /\ arg.ty = "string"
    /\ ~C14_Blank(arg)
    /\ LET texts == SelectSeq(arg.text, C14_IsText)
       IN ~(Len(texts) = 1 /\ texts[1].kind = "json"
            /\ \E i \in 1..Len(arg.text) :
                 /\ arg.text[i].kind = "json"
                 /\ \A j \in 1..Len(arg.text) : j # i => arg.text[j].kind = "ws")

C14_Called == Len(tableCalls') = Len(tableCalls) + 1
C14_Call   == tableCalls'[Len(tableCalls')]

\* C14: a call with a null, undefined, empty or white space input leaves the
\* div as it is and shows no toast; a call with a string that is not valid
\* JSON leaves the div as it is and shows exactly one error toast; every
\* call ends by returning, never by an exception.
C14_ErrorHandling ==
    [][C14_Called =>
         /\ C14_Blank(C14_Call.jsonData) =>
               div' = div /\ toasts' = toasts /\ C14_Call.outcome = "returned"
         /\ C14_InvalidJson(C14_Call.jsonData) =>
               div' = div /\ toasts' = toasts + 1 /\ C14_Call.outcome = "caught"
         /\ C14_Call.outcome \in {"returned", "rendered", "caught"}]_vars

\* A white space string was passed to a rendered page and then a string that
\* is no JSON: the table is still there and one toast was shown.
C14_Witness ==
    /\ Len(tableCalls) = 2
    /\ C14_InvalidJson(tableCalls[2].jsonData)
    /\ tableCalls[2].outcome = "caught"
    /\ tableCalls[2].before # <<>>
    /\ div = tableCalls[2].before
    /\ toasts = 1

(***************************************************************************)
(* Claims about TrimWhitespaceModelBinder                                  *)
(***************************************************************************)

\* s has no white space at its start or at its end.
C15_IsTrimmed(s) ==
    s = <<>> \/ (s[1] \notin WhiteSpaceChars /\ s[Len(s)] \notin WhiteSpaceChars)

\* r is s without its leading and trailing white space.
C15_Stripped(s, r) ==
    /\ C15_IsTrimmed(r)
    /\ \E i, j \in 0..Len(s) :
          /\ i + j <= Len(s)
          /\ r = SubSeq(s, i + 1, Len(s) - j)
          /\ \A k \in 1..i : s[k] \in WhiteSpaceChars
          /\ \A k \in (Len(s) - j + 1)..Len(s) : s[k] \in WhiteSpaceChars

C15_Bound == bindCount' = bindCount + 1 /\ lastBind'.outcome = "completed"

\* C15: when the value provider has a value for the model name, the result
\* is Success with the first value stripped of leading and trailing white
\* space and ModelState holds that value under the model name, an already
\* trimmed value being kept as it is; when the provider returns None, the
\* result and ModelState stay as they were.
C15_BindsTrimmedValue ==
    [][C15_Bound =>
         IF lastBind'.values # ValueProviderResultNone
         THEN \E r \in Strings :
                 /\ C15_Stripped(lastBind'.values[1], r)
                 /\ C15_IsTrimmed(lastBind'.values[1]) => r = lastBind'.values[1]
                 /\ bindingResult' = Success(r)
                 /\ modelState' = [modelState EXCEPT ![lastBind'.modelName] =
                                       [isSet |-> TRUE, values |-> <<r>>]]
         ELSE bindingResult' = bindingResult /\ modelState' = modelState]_vars

\* "a" between white space was bound to Name after Email had been bound:
\* both are in ModelState, trimmed.
C15_Witness ==
    /\ lastBind.modelName = "Name"
    /\ lastBind.values = << <<" ", "a">>, <<" ", "a">> >>
    /\ bindingResult = Success(<<"a">>)
    /\ modelState["Name"] = [isSet |-> TRUE, values |-> << <<"a">> >>]
    /\ modelState["Email"].isSet

(***************************************************************************)
(* Claims about ActionBuilder                                              *)
(***************************************************************************)

C16_HasController(t) == \E i \in 1..Len(t.chars) : t.chars[i] = "Controller"

\* What the claim says of the last call.
C16_AsClaimed ==
    /\ ~C16_HasController(lastBuild.expression) => lastBuild.result = StringEmpty
    /\ lastBuild.form = "member" =>
          lastBuild.result = UrlAction(lastBuild.y, lastBuild.x)
    /\ lastBuild.form = "type" =>
          lastBuild.result = UrlAction(<<>>, lastBuild.x)
    /\ lastBuild.expression = Str(<<"nameof(", "Controller", ".", "Index", ")">>) =>
          lastBuild.result = StringEmpty
    /\ lastBuild.expression = Str(<<"nameof(", "Home", "Controller", ".", "Index", ")">>) =>
          lastBuild.result = UrlAction(<<"Index">>, <<"Home">>)

\* C16: ActionBuilder returns the empty string for an expression without
\* "Controller" or with a blank controller name, and otherwise, for
\* nameof(XController.Y), urlHelper.Action(Y, X), the action name being
\* empty without a '.'; nameof(HomeController.Index) gives
\* Url.Action("Index", "Home").
C16_ActionBuilderResult ==
    buildCount > 0 => C16_AsClaimed

C16_Plain(name) == \A i \in 1..Len(name) : name[i] # "Controller"

\* The same for the class and member names that do not themselves contain
\* "Controller".
C16_ResultForPlainNames ==
    (buildCount > 0 /\ C16_Plain(lastBuild.x) /\ C16_Plain(lastBuild.y)) => C16_AsClaimed

====
